---- MODULE Spec2Model ----
(***************************************************************************)
(* Model of the page-oriented TLV transport of python-nfc-api:             *)
(* Reader.read_card / Reader.write_card (reader.py) driving the ACR122U    *)
(* command primitives _read_card_bytes / _write_card_bytes against a       *)
(* page-addressed tag (tag.py).  One step of the model is one device       *)
(* transaction (card.transmit) together with all the code that runs up to  *)
(* the next transaction or to the end of the operation.                    *)
(***************************************************************************)
EXTENDS Integers, Sequences, FiniteSets, TLC

VARIABLES
    tag,                \* the Tag profile handed to the Reader
    card,               \* what is stored on the presented card at the start
    args_write,         \* nfc.py --write: the invocation writes, else reads
    mem,                \* device memory, byte address -> byte
    pc,                 \* position of the program
    faults,             \* device transactions that did not succeed so far
    message,            \* write_card: the encoded NDEF message
    tlv_message,        \* write_card: the framed blob
    byte_index,         \* _write_card_bytes: loop variable
    wlog,               \* write commands transmitted, in order
    w_status,           \* how write_card ended
    content,            \* read_card: the scan buffer
    current_byte_index, \* read_card: scan cursor
    page_index,         \* read_card: page cursor
    record_start,       \* read_card: first byte of the value
    record_end,         \* read_card: one past the last byte of the value
    rcb,                \* frame of the running _read_card_bytes call
    rlog,               \* read commands transmitted, in order
    rres,               \* how each read command ended, in order
    r_status,           \* how read_card ended
    r_value,            \* what read_card returned
    wfc,                \* position of wait_for_card
    session             \* state of the card connection

vars == <<tag, card, args_write, mem, pc, faults, message, tlv_message,
          byte_index, wlog, w_status, content, current_byte_index,
          page_index, record_start, record_end, rcb, rlog, rres, r_status,
          r_value, wfc, session>>

sessionVars == <<wfc, session>>

writeVars == <<message, tlv_message, byte_index, wlog, w_status>>
readVars == <<content, current_byte_index, page_index, record_start,
              record_end, rcb, rlog, rres, r_status, r_value>>

----------------------------------------------------------------------------
\* Program constants

ndef_tlv_start == 3
ndef_tlv_terminator == 254
tlv_end == 254
extended_length_marker == 255
max_header_length == 4
max_bytes_per_read == 16
max_byte == 255

NTAG216 == [bytes_per_page |-> 4, memory_page_start |-> 4, memory_page_max |-> 226]

----------------------------------------------------------------------------
\* Bounds of the model

MaxSmallLen == 18          \* message lengths 0..MaxSmallLen are all tried
MaxPad == 33               \* bytes in front of the first TLV on a crafted card
MaxFaults == 1             \* spontaneous device faults per run
SmallPageMax == 72         \* memory_page_max of the small tag profile

SmallTag == [bytes_per_page |-> 4, memory_page_start |-> 4, memory_page_max |-> SmallPageMax]

Profiles == {NTAG216, SmallTag}

----------------------------------------------------------------------------
\* Helpers

Ceil(a, b) == (a + b - 1) \div b

Min(a, b) == IF a < b THEN a ELSE b

Zeros(n) == [i \in 1..n |-> 0]

\* Python slice s[a:b] for 0 <= a <= b
Slice(s, a, b) == SubSeq(s, a + 1, Min(b, Len(s)))

\* value bytes used for crafted records and messages
Ramp(n, seed) == [i \in 1..n |-> ((i + seed) % 250) + 1]

Fill(n, b) == [i \in 1..n |-> b]

----------------------------------------------------------------------------
\* Cards presented to the reader: bytes stored from memory_page_start on

Hello == <<72, 101, 108, 108, 111>>

CardBody(c) ==
    CASE c.form = "none"  -> <<>>
      [] c.form = "hello" -> <<ndef_tlv_start, 5>> \o Hello \o <<ndef_tlv_terminator>>
      [] c.form = "short" -> <<ndef_tlv_start, c.n>> \o Ramp(c.n, 1) \o <<ndef_tlv_terminator>>
      [] c.form = "ext"   -> <<ndef_tlv_start, extended_length_marker, c.n \div 256, c.n % 256>>
                               \o Ramp(c.n, 2) \o <<ndef_tlv_terminator>>
      [] c.form = "over"  -> <<ndef_tlv_start, extended_length_marker, c.n \div 256, c.n % 256>>
      [] c.form = "term"  -> <<ndef_tlv_terminator, ndef_tlv_start, 2, 65, 66, ndef_tlv_terminator>>

CardBytes(c) == Fill(c.pad, c.junk) \o CardBody(c)

UserBase(t) == t.memory_page_start * t.bytes_per_page

MemSize(t) == t.memory_page_max * t.bytes_per_page

CardMem(c, t) ==
    [a \in 0..(MemSize(t) - 1) |->
        IF a >= UserBase(t) /\ a - UserBase(t) < Len(CardBytes(c))
        THEN CardBytes(c)[a - UserBase(t) + 1]
        ELSE 0]

\* declared lengths of records that end past the memory of a tag
OverLens == {270, 886}

ShortLens == {0, 5, 12, 13, 14, 30, 254}
ExtLens == {0, 5, 255, 256, 260}

Cards ==
    [pad : 0..MaxPad, junk : {0}, form : {"hello", "term", "none"}, n : {0}]
    \cup [pad : 0..MaxPad, junk : {0}, form : {"short"}, n : ShortLens]
    \cup [pad : 0..MaxPad, junk : {0}, form : {"ext"}, n : ExtLens]
    \cup [pad : {1, 15, 16, 17, 31, 32}, junk : {65}, form : {"hello", "term", "none"}, n : {0}]
    \cup [pad : {1, 15, 16, 17, 31, 32}, junk : {65}, form : {"ext"}, n : {256}]
    \cup [pad : {0}, junk : {0}, form : {"over"}, n : OverLens]

WriteCards ==
    { [pad |-> 0, junk |-> 0, form |-> "none", n |-> 0],
      [pad |-> 0, junk |-> 0, form |-> "short", n |-> 30] }

\* the card can exist on the tag; a record that claims more than the memory
\* holds overruns it by a page at most
CardFits(c, t) ==
    /\ Len(CardBytes(c)) <= MemSize(t) - UserBase(t)
    /\ c.form = "over" => c.pad + 4 + c.n <= MemSize(t) - UserBase(t) + t.bytes_per_page

\* Encoded NDEF messages (the encoder is an opaque collaborator)
MsgLens == (0..MaxSmallLen) \cup {29, 30, 31, 251, 252, 253, 254, 255, 256}

Messages == { Ramp(l, 7) : l \in MsgLens } \cup { Fill(l, ndef_tlv_terminator) : l \in {1, 14, 252} }

----------------------------------------------------------------------------
\* Reader.write_card and ACR122U._write_card_bytes

\* the padding step left out
Padding_None(t, m) == m

Padding(t, m) ==
    LET bytes_in_last_page == Len(m) % t.bytes_per_page
    IN  IF bytes_in_last_page # 0
        THEN m \o Zeros(t.bytes_per_page - bytes_in_last_page)
        ELSE m

TlvHeader(m) == <<ndef_tlv_start, Len(m)>>

\* bytes(tlv_end) is tlv_end zero bytes
TlvMessage(t, m) == Padding(t, TlvHeader(m) \o m \o Zeros(tlv_end))

\* the page count taken from page 0 instead of memory_page_start
MaxBytesInMemory_FromPageZero(t) == t.memory_page_max * t.bytes_per_page

MaxBytesInMemory(t) == (t.memory_page_max - t.memory_page_start) * t.bytes_per_page

\* the chunk taken one byte too far into the blob
WriteChunk_OffByOne(t, blob, bi) == Slice(blob, bi + 1, bi + 1 + t.bytes_per_page)

WriteChunk(t, blob, bi) == Slice(blob, bi, bi + t.bytes_per_page)

\* the page advanced by bytes instead of pages
WritePage_ByBytes(t, bi) == t.memory_page_start + bi

WritePage(t, bi) == t.memory_page_start + (bi \div t.bytes_per_page)

\* the device stores the bytes of one write command
Store(m, t, page, data) ==
    [a \in DOMAIN m |->
        IF a >= page * t.bytes_per_page /\ a - page * t.bytes_per_page < Len(data)
        THEN data[a - page * t.bytes_per_page + 1]
        ELSE m[a]]

WriteCardBegin ==
    /\ pc = "start"
    /\ wfc = "callback"
    /\ args_write
    /\ \E m \in Messages :
         /\ message' = m
         /\ IF Len(m) = 0
            THEN /\ w_status' = "EncodeError"
                 /\ pc' = "done"
                 /\ UNCHANGED tlv_message
            ELSE IF Len(m) > max_byte
            THEN /\ w_status' = "HeaderValueError"
                 /\ pc' = "done"
                 /\ UNCHANGED tlv_message
            ELSE /\ tlv_message' = TlvMessage(tag, m)
                 /\ IF Len(TlvMessage(tag, m)) > MaxBytesInMemory(tag)
                    THEN /\ w_status' = "TooLarge"
                         /\ pc' = "done"
                    ELSE /\ w_status' = "writing"
                         /\ pc' = "write"
    /\ byte_index' = 0
    /\ wlog' = <<>>
    /\ wfc' = "running"
    /\ UNCHANGED <<tag, card, args_write, mem, faults, session>>
    /\ UNCHANGED readVars

WriteCommand ==
    [page |-> WritePage(tag, byte_index),
     amount |-> tag.bytes_per_page,
     data |-> WriteChunk(tag, tlv_message, byte_index)]

WriteTransmitOk ==
    /\ pc = "write"
    /\ wlog' = Append(wlog, WriteCommand)
    /\ mem' = Store(mem, tag, WriteCommand.page, WriteCommand.data)
    /\ byte_index' = byte_index + tag.bytes_per_page
    /\ IF byte_index + tag.bytes_per_page >= Len(tlv_message)
       THEN /\ pc' = "written"
            /\ w_status' = "written"
       ELSE UNCHANGED <<pc, w_status>>
    /\ UNCHANGED <<tag, card, args_write, faults, message, tlv_message>>
    /\ UNCHANGED readVars
    /\ UNCHANGED sessionVars

\* the status of the write is not looked at: the loop goes on
WriteTransmitStatusFault_Ignored ==
    /\ pc = "write"
    /\ faults < MaxFaults
    /\ faults' = faults + 1
    /\ wlog' = Append(wlog, WriteCommand)
    /\ byte_index' = byte_index + tag.bytes_per_page
    /\ IF byte_index + tag.bytes_per_page >= Len(tlv_message)
       THEN /\ pc' = "written"
            /\ w_status' = "written"
       ELSE UNCHANGED <<pc, w_status>>
    /\ UNCHANGED <<tag, card, args_write, mem, message, tlv_message>>
    /\ UNCHANGED readVars
    /\ UNCHANGED sessionVars

\* the device answers with a status other than 90 00
WriteTransmitStatusFault ==
    /\ pc = "write"
    /\ faults < MaxFaults
    /\ faults' = faults + 1
    /\ wlog' = Append(wlog, WriteCommand)
    /\ pc' = "done"
    /\ w_status' = "CardConnectionException"
    /\ UNCHANGED <<tag, card, args_write, mem, message, tlv_message, byte_index>>
    /\ UNCHANGED readVars
    /\ UNCHANGED sessionVars

\* card.transmit raises; the page may or may not have been stored
WriteTransmitTransportFault ==
    /\ pc = "write"
    /\ faults < MaxFaults
    /\ faults' = faults + 1
    /\ wlog' = Append(wlog, WriteCommand)
    /\ \E stored \in BOOLEAN :
         mem' = IF stored THEN Store(mem, tag, WriteCommand.page, WriteCommand.data) ELSE mem
    /\ pc' = "done"
    /\ w_status' = "CardConnectionException"
    /\ UNCHANGED <<tag, card, args_write, message, tlv_message, byte_index>>
    /\ UNCHANGED readVars
    /\ UNCHANGED sessionVars

----------------------------------------------------------------------------
\* ACR122U._read_card_bytes

PagesPerRead(t) == max_bytes_per_read \div t.bytes_per_page

\* length_in_bytes as the clamping step leaves it
ClampLength(t, page, length_in_bytes) ==
    LET length_in_pages == Ceil(length_in_bytes, t.bytes_per_page)
        end_page == page + length_in_pages
        pages_over_limit == t.memory_page_max - end_page
        bytes_over_limit == pages_over_limit * t.bytes_per_page
    IN  IF end_page > t.memory_page_max
        THEN length_in_bytes - bytes_over_limit
        ELSE length_in_bytes

ReadAmount(length_in_bytes) == Ceil(length_in_bytes, max_bytes_per_read)

NoCall ==
    [site |-> "none", page |-> 0, requested |-> 0, length_in_bytes |-> 0,
     left |-> 0, data |-> <<>>]

\* entry of _read_card_bytes(card, page, length_in_bytes) called from `site`
ReadCardBytesCall(t, site, page, length_in_bytes) ==
    [site |-> site, page |-> page, requested |-> length_in_bytes,
     length_in_bytes |-> ClampLength(t, page, length_in_bytes),
     left |-> ReadAmount(length_in_bytes), data |-> <<>>]

\* a read command covers max_bytes_per_read bytes from `page` on
ReadInMemory(t, page) ==
    page * t.bytes_per_page + max_bytes_per_read <= MemSize(t)

\* bytes the device returns; `fill` stands for what lies past memory_page_max
DeviceRead(m, t, page, fill) ==
    [i \in 1..max_bytes_per_read |->
        LET a == page * t.bytes_per_page + i - 1
        IN  IF a < MemSize(t) THEN m[a] ELSE fill]

PastMemoryFills == {0, ndef_tlv_start, ndef_tlv_terminator}

----------------------------------------------------------------------------
\* Reader.read_card

\* the increment of the null branch taking effect on the loop variable
RECURSIVE Scan_SkipTwo(_, _, _)
Scan_SkipTwo(c, i, content_length) ==
    IF i >= Len(c)
    THEN [kind |-> "IndexError", idx |-> i]
    ELSE LET current_byte == c[i + 1]
         IN  IF current_byte = 0
             THEN IF i + 2 >= content_length
                  THEN [kind |-> "exhausted", idx |-> i + 2]
                  ELSE Scan_SkipTwo(c, i + 2, content_length)
             ELSE IF current_byte = ndef_tlv_terminator
             THEN [kind |-> "terminator", idx |-> i]
             ELSE IF current_byte = ndef_tlv_start
             THEN [kind |-> "start", idx |-> i]
             ELSE IF i + 1 = content_length
                  THEN [kind |-> "exhausted", idx |-> i]
                  ELSE Scan_SkipTwo(c, i + 1, content_length)

\* the for loop over range(current_byte_index, content_length): what stops it
\* and the value current_byte_index is left with
RECURSIVE Scan(_, _, _)
Scan(c, i, content_length) ==
    IF i >= Len(c)
    THEN [kind |-> "IndexError", idx |-> i]
    ELSE LET current_byte == c[i + 1]
         IN  IF current_byte = 0
             THEN IF i + 1 = content_length
                  THEN [kind |-> "exhausted", idx |-> i + 1]
                  ELSE Scan(c, i + 1, content_length)
             ELSE IF current_byte = ndef_tlv_terminator
             THEN [kind |-> "terminator", idx |-> i]
             ELSE IF current_byte = ndef_tlv_start
             THEN [kind |-> "start", idx |-> i]
             ELSE IF i + 1 = content_length
                  THEN [kind |-> "exhausted", idx |-> i]
                  ELSE Scan(c, i + 1, content_length)

ReadState(p, c, cbi, pi, rs, re, call, status, value) ==
    [pc |-> p, content |-> c, current_byte_index |-> cbi, page_index |-> pi,
     record_start |-> rs, record_end |-> re, rcb |-> call,
     r_status |-> status, r_value |-> value]

ReadFailed(c, cbi, pi, status) ==
    ReadState("done", c, cbi, pi, 0, 0, NoCall, status, <<>>)

HeaderLength(c, i) ==
    IF c[i + 2] = extended_length_marker THEN 4 ELSE 2

\* the two length bytes combined in the wrong order
RecordLength_LittleEndian(c, i) ==
    IF c[i + 2] = extended_length_marker
    THEN c[i + 4] * 256 + c[i + 3]
    ELSE c[i + 2]

RecordLength(c, i) ==
    IF c[i + 2] = extended_length_marker
    THEN c[i + 3] * 256 + c[i + 4]
    ELSE c[i + 2]

\* lines 91-100: decode the header at index i and call for the value
DecodeHeader(t, c, i, pi) ==
    IF i + 1 >= Len(c)
    THEN ReadFailed(c, i, pi, "IndexError")
    ELSE IF c[i + 2] = extended_length_marker /\ i + 3 >= Len(c)
    THEN ReadFailed(c, i, pi, "IndexError")
    ELSE LET header_length == HeaderLength(c, i)
             record_length == RecordLength(c, i)
         IN  ReadState("read", c, i, pi, i + header_length,
                       i + header_length + record_length,
                       ReadCardBytesCall(t, "final", pi, header_length + record_length),
                       "reading", <<>>)

\* the buffer tested against the short header only
ScanWindow_ShortHeaderCheck(t, c, cbi, pi) ==
    LET s == Scan(c, cbi, cbi + max_bytes_per_read)
    IN  CASE s.kind = "IndexError" -> ReadFailed(c, s.idx, pi, "IndexError")
          [] s.kind = "terminator" ->
               ReadState("done", c, s.idx, pi, 0, 0, NoCall, "empty", <<>>)
          [] s.kind = "exhausted" ->
               ReadState("read", c, s.idx, pi, 0, 0,
                         ReadCardBytesCall(t, "scan", pi, max_bytes_per_read),
                         "reading", <<>>)
          [] s.kind = "start" ->
               IF Len(c) >= s.idx + 2
               THEN DecodeHeader(t, c, s.idx, pi)
               ELSE ReadState("read", c, s.idx, pi, 0, 0,
                              ReadCardBytesCall(t, "more", pi, max_bytes_per_read),
                              "reading", <<>>)

\* lines 69-89: scan the window of the buffer that the loop covers
ScanWindow(t, c, cbi, pi) ==
    LET s == Scan(c, cbi, cbi + max_bytes_per_read)
    IN  CASE s.kind = "IndexError" -> ReadFailed(c, s.idx, pi, "IndexError")
          [] s.kind = "terminator" ->
               ReadState("done", c, s.idx, pi, 0, 0, NoCall, "empty", <<>>)
          [] s.kind = "exhausted" ->
               ReadState("read", c, s.idx, pi, 0, 0,
                         ReadCardBytesCall(t, "scan", pi, max_bytes_per_read),
                         "reading", <<>>)
          [] s.kind = "start" ->
               IF Len(c) >= s.idx + max_header_length
               THEN DecodeHeader(t, c, s.idx, pi)
               ELSE ReadState("read", c, s.idx, pi, 0, 0,
                              ReadCardBytesCall(t, "more", pi, max_bytes_per_read),
                              "reading", <<>>)

\* what read_card does with the bytes a _read_card_bytes call returned,
\* up to the next call or to its end
Resume(t, site, data, c0, cbi, pi0, rs, re) ==
    LET c == c0 \o data
        pi == pi0 + PagesPerRead(t)
    IN  IF site = "scan" THEN ScanWindow(t, c, cbi, pi)
        ELSE IF site = "more" THEN DecodeHeader(t, c, cbi, pi)
        ELSE ReadState("done", c, cbi, pi0, rs, re, NoCall, "record", Slice(c, rs, re))

SetReadState(s) ==
    /\ pc' = s.pc
    /\ content' = s.content
    /\ current_byte_index' = s.current_byte_index
    /\ page_index' = s.page_index
    /\ record_start' = s.record_start
    /\ record_end' = s.record_end
    /\ rcb' = s.rcb
    /\ r_status' = s.r_status
    /\ r_value' = s.r_value

ReadCardBegin ==
    /\ \/ pc = "start" /\ ~args_write
       \/ pc = "written"
    /\ wfc = "callback"
    /\ wfc' = "running"
    /\ rres' = <<>>
    /\ pc' = "read"
    /\ content' = <<>>
    /\ current_byte_index' = 0
    /\ page_index' = tag.memory_page_start
    /\ rcb' = ReadCardBytesCall(tag, "scan", tag.memory_page_start, max_bytes_per_read)
    /\ rlog' = <<>>
    /\ r_status' = "reading"
    /\ UNCHANGED <<record_start, record_end, r_value>>
    /\ UNCHANGED <<tag, card, args_write, mem, faults, session>>
    /\ UNCHANGED writeVars

ReadTransmitOk ==
    /\ pc = "read"
    /\ rcb.left > 0
    /\ rcb.page <= max_byte
    /\ rlog' = Append(rlog, rcb.page)
    /\ rres' = Append(rres, "ok")
    /\ \E fill \in (IF ReadInMemory(tag, rcb.page) THEN {0} ELSE PastMemoryFills) :
         LET f == [rcb EXCEPT !.data = @ \o DeviceRead(mem, tag, rcb.page, fill),
                              !.page = @ + PagesPerRead(tag),
                              !.left = @ - 1]
         IN  IF f.left = 0
             THEN SetReadState(Resume(tag, f.site, f.data, content, current_byte_index,
                                      page_index, record_start, record_end))
             ELSE /\ rcb' = f
                  /\ UNCHANGED <<pc, content, current_byte_index, page_index,
                                 record_start, record_end, r_status, r_value>>
    /\ UNCHANGED <<tag, card, args_write, mem, faults>>
    /\ UNCHANGED writeVars
    /\ UNCHANGED sessionVars

\* a fault may strike any command; a command past the memory may always fail
FaultAllowed == faults < MaxFaults \/ ~ReadInMemory(tag, rcb.page)

\* (sw1, sw2) != success_sw: CardConnectionException leaves read_card
ReadTransmitStatusFault ==
    /\ pc = "read"
    /\ rcb.left > 0
    /\ rcb.page <= max_byte
    /\ FaultAllowed
    /\ faults' = faults + 1
    /\ rlog' = Append(rlog, rcb.page)
    /\ rres' = Append(rres, "status")
    /\ SetReadState(ReadFailed(content, current_byte_index, page_index,
                               "CardConnectionException"))
    /\ UNCHANGED <<tag, card, args_write, mem>>
    /\ UNCHANGED writeVars
    /\ UNCHANGED sessionVars

\* card.transmit raises CardConnectionException: the loop breaks and the
\* bytes gathered so far are returned
ReadTransmitTransportFault ==
    /\ pc = "read"
    /\ rcb.left > 0
    /\ rcb.page <= max_byte
    /\ FaultAllowed
    /\ faults' = faults + 1
    /\ rlog' = Append(rlog, rcb.page)
    /\ rres' = Append(rres, "transport")
    /\ SetReadState(Resume(tag, rcb.site, rcb.data, content, current_byte_index,
                           page_index, record_start, record_end))
    /\ UNCHANGED <<tag, card, args_write, mem>>
    /\ UNCHANGED writeVars
    /\ UNCHANGED sessionVars

\* the page does not fit the one-byte field of the APDU
ReadTransmitApduError ==
    /\ pc = "read"
    /\ rcb.left > 0
    /\ rcb.page > max_byte
    /\ SetReadState(ReadFailed(content, current_byte_index, page_index, "ApduError"))
    /\ UNCHANGED <<tag, card, args_write, mem, faults, rlog, rres>>
    /\ UNCHANGED writeVars
    /\ UNCHANGED sessionVars

----------------------------------------------------------------------------
\* Reader.wait_for_card

ProgramVars == <<tag, card, args_write, mem, pc, faults>>

WaitOutcomes == {"timeout", "no_service", "connect_raises", "log_raises", "callback"}

\* lines 136-149: wait for a card, connect, log the card info; the next
\* invocation of the program (the read after a write) waits again
WaitForCard ==
    /\ \/ wfc = "idle" /\ pc = "start"
       \/ wfc = "returned" /\ pc = "written" /\ r_status = "none"
    /\ \E outcome \in WaitOutcomes :
         /\ wfc' = CASE outcome \in {"timeout", "no_service"} -> "returned"
                     [] outcome \in {"connect_raises", "log_raises"} -> "raised"
                     [] OTHER -> "callback"
         /\ session' = IF outcome \in {"log_raises", "callback"}
                       THEN "connected"
                       ELSE session
    /\ UNCHANGED ProgramVars
    /\ UNCHANGED writeVars
    /\ UNCHANGED readVars

CallbackRaised ==
    /\ pc = "done"
    /\ \/ w_status \in {"EncodeError", "HeaderValueError", "TooLarge",
                         "CardConnectionException"}
       \/ r_status \in {"IndexError", "CardConnectionException", "ApduError"}

\* lines 152-155: the finally block; release is not reached when disconnect
\* raises
WaitForCardFinally ==
    /\ wfc = "running"
    /\ pc \in {"done", "written"}
    /\ \E disconnect_raises \in BOOLEAN :
         IF disconnect_raises
         THEN /\ wfc' = "raised"
              /\ UNCHANGED session
         ELSE /\ wfc' = IF CallbackRaised THEN "raised" ELSE "returned"
              /\ session' = "released"
    /\ UNCHANGED ProgramVars
    /\ UNCHANGED writeVars
    /\ UNCHANGED readVars

----------------------------------------------------------------------------

Init ==
    /\ tag \in Profiles
    /\ args_write \in BOOLEAN
    /\ card \in (IF args_write THEN WriteCards ELSE { c \in Cards : CardFits(c, tag) })
    /\ mem = CardMem(card, tag)
    /\ pc = "start"
    /\ faults = 0
    /\ message = <<>>
    /\ tlv_message = <<>>
    /\ byte_index = 0
    /\ wlog = <<>>
    /\ w_status = "none"
    /\ content = <<>>
    /\ current_byte_index = 0
    /\ page_index = 0
    /\ record_start = 0
    /\ record_end = 0
    /\ rcb = NoCall
    /\ rlog = <<>>
    /\ rres = <<>>
    /\ r_status = "none"
    /\ r_value = <<>>
    /\ wfc = "idle"
    /\ session = "none"

Next ==
    \/ WaitForCard
    \/ WaitForCardFinally
    \/ WriteCardBegin
    \/ WriteTransmitOk
    \/ WriteTransmitStatusFault
    \/ WriteTransmitTransportFault
    \/ ReadCardBegin
    \/ ReadTransmitOk
    \/ ReadTransmitStatusFault
    \/ ReadTransmitTransportFault
    \/ ReadTransmitApduError

Spec == Init /\ [][Next]_vars

----------------------------------------------------------------------------
\* What is stored on the device, read directly from the memory

UserSize(t) == MemSize(t) - UserBase(t)

\* byte at offset k of the user memory
UserByte(k) == mem[UserBase(tag) + k]

UserBytes(from, to) == [i \in 1..(to - from) |-> UserByte(from + i - 1)]

TlvTagOffsets == { k \in 0..(UserSize(tag) - 1) :
                     UserByte(k) \in {ndef_tlv_start, ndef_tlv_terminator} }

\* offset of the first start marker or terminator in memory order
FirstTlvTag == CHOOSE k \in TlvTagOffsets : \A j \in TlvTagOffsets : k <= j

ReadEnded == pc = "done" /\ r_status \notin {"none", "reading"}

\* a short-form record is the first TLV of the memory and lies inside it
ShortRecordFirst ==
    /\ TlvTagOffsets # {}
    /\ UserByte(FirstTlvTag) = ndef_tlv_start
    /\ FirstTlvTag + 2 <= UserSize(tag)
    /\ UserByte(FirstTlvTag + 1) < extended_length_marker
    /\ FirstTlvTag + 2 + UserByte(FirstTlvTag + 1) <= UserSize(tag)

\* an extended-form record is the first TLV of the memory and lies inside it
ExtRecordFirst ==
    /\ TlvTagOffsets # {}
    /\ UserByte(FirstTlvTag) = ndef_tlv_start
    /\ FirstTlvTag + 4 <= UserSize(tag)
    /\ UserByte(FirstTlvTag + 1) = extended_length_marker
    /\ FirstTlvTag + 4 + UserByte(FirstTlvTag + 2) * 256 + UserByte(FirstTlvTag + 3)
         <= UserSize(tag)

ExtLength == UserByte(FirstTlvTag + 2) * 256 + UserByte(FirstTlvTag + 3)

TerminatorFirst ==
    /\ TlvTagOffsets # {}
    /\ UserByte(FirstTlvTag) = ndef_tlv_terminator

----------------------------------------------------------------------------
\* C1: on a fault-free NTAG216, a message of at most 0xFE - 2 bytes that
\* write_card has written is returned byte for byte by the read_card that
\* follows.
C1_RoundTrip ==
    (/\ tag = NTAG216
     /\ w_status = "written"
     /\ ReadEnded
     /\ faults = 0
     /\ Len(message) <= 254 - 2)
    => (r_status = "record" /\ r_value = message)

C1_Witness ==
    /\ tag = NTAG216
    /\ w_status = "written"
    /\ ReadEnded
    /\ faults = 0
    /\ Len(message) = 254 - 2
    /\ r_value = message

\* C2: on a fault-free device, when the first TLV tag in memory order is a
\* start marker followed by a length byte n < 0xFF and n value bytes,
\* read_card returns exactly those n bytes, which follow a 2-byte header.
C2_ShortFormRead ==
    (ReadEnded /\ faults = 0 /\ ShortRecordFirst)
    => /\ r_status = "record"
       /\ r_value = UserBytes(FirstTlvTag + 2, FirstTlvTag + 2 + UserByte(FirstTlvTag + 1))
       /\ record_start = FirstTlvTag + 2

C2_Witness ==
    /\ ReadEnded
    /\ faults = 0
    /\ ShortRecordFirst
    /\ FirstTlvTag = 4
    /\ r_status = "record"
    /\ r_value = Hello

\* C3: on a fault-free device, a record with the header [0x03, 0xFF, hi, lo]
\* is decoded to the length hi*256 + lo and read_card returns exactly the
\* hi*256 + lo bytes after the 4-byte header, wherever the start marker lies
\* relative to a 16-byte transaction boundary.
C3_ExtendedFormRead ==
    (ReadEnded /\ faults = 0 /\ ExtRecordFirst)
    => /\ r_status = "record"
       /\ record_start = FirstTlvTag + 4
       /\ record_end - record_start = ExtLength
       /\ Len(r_value) = ExtLength
       /\ r_value = UserBytes(FirstTlvTag + 4, FirstTlvTag + 4 + ExtLength)

\* the header straddles two fetched chunks and the length needs both bytes
C3_Witness ==
    /\ ReadEnded
    /\ faults = 0
    /\ ExtRecordFirst
    /\ FirstTlvTag % max_bytes_per_read = 14
    /\ ExtLength = 260
    /\ r_status = "record"
    /\ Len(r_value) = 260

\* C4: when the terminator is met before any start marker, read_card on a
\* fault-free device returns the empty result without error and sends no read
\* command after the one that fetched the chunk holding the terminator.
C4_Absence ==
    (faults = 0 /\ r_status # "none" /\ TerminatorFirst)
    => /\ Len(rlog) <= (FirstTlvTag \div max_bytes_per_read) + 1
       /\ ReadEnded => r_status = "empty"

\* C5: the blob write_card hands to the device is 0x03, the length byte, the
\* message, one terminator 0xFE right after the last message byte, and zero
\* padding up to the page boundary.
C5_FramedLayout ==
    w_status \in {"writing", "written", "CardConnectionException"}
    => LET framed == <<ndef_tlv_start, Len(message)>> \o message \o <<254>>
           rest == Len(framed) % tag.bytes_per_page
       IN  tlv_message =
             framed \o Zeros(IF rest = 0 THEN 0 ELSE tag.bytes_per_page - rest)

\* C6: when the framed, padded blob is longer than
\* (memory_page_max - memory_page_start) * bytes_per_page, write_card fails
\* with the capacity fault and has sent no write command; no write command
\* ever addresses a page at or beyond memory_page_max.
C6_OversizedWrite ==
    /\ (/\ w_status # "none"
        /\ Len(tlv_message) >
             (tag.memory_page_max - tag.memory_page_start) * tag.bytes_per_page)
       => (w_status = "TooLarge" /\ wlog = <<>> /\ mem = CardMem(card, tag))
    /\ \A k \in 1..Len(wlog) : wlog[k].page < tag.memory_page_max

C6_Witness ==
    /\ w_status = "TooLarge"
    /\ Len(tlv_message) >
         (tag.memory_page_max - tag.memory_page_start) * tag.bytes_per_page
    /\ wlog = <<>>

\* C7: the k-th write transaction (k = 0..M-1) addresses page
\* memory_page_start + k and carries bytes [k*bytes_per_page,
\* (k+1)*bytes_per_page) of the blob; a write that succeeds has sent exactly
\* M transactions for a blob of M pages.
C7_WriteOrdering ==
    /\ \A k \in 1..Len(wlog) :
         /\ wlog[k].page = tag.memory_page_start + (k - 1)
         /\ wlog[k].data = SubSeq(tlv_message, (k - 1) * tag.bytes_per_page + 1,
                                  k * tag.bytes_per_page)
    /\ w_status = "written" => Len(wlog) * tag.bytes_per_page = Len(tlv_message)

C7_Witness ==
    /\ w_status = "written"
    /\ Len(wlog) = 128
    /\ wlog[128].page = tag.memory_page_start + 127

\* C8: once a write transaction has failed, write_card has failed, the failed
\* command is the last one sent, the chunks before it are stored and every
\* page after the failing page is as it was before the write.
C8_PartialWrite ==
    (faults > 0 /\ r_status = "none" /\ wlog # <<>>)
    => /\ pc = "done"
       /\ w_status = "CardConnectionException"
       /\ LET k == Len(wlog) - 1
              page == tag.memory_page_start + k
          IN  /\ wlog[k + 1].page = page
              /\ \A a \in DOMAIN mem :
                   /\ (a >= UserBase(tag) /\ a < page * tag.bytes_per_page)
                        => mem[a] = tlv_message[a - UserBase(tag) + 1]
                   /\ a >= (page + 1) * tag.bytes_per_page
                        => mem[a] = CardMem(card, tag)[a]

C8_Witness ==
    /\ faults > 0
    /\ r_status = "none"
    /\ w_status = "CardConnectionException"
    /\ Len(wlog) = 40
    /\ card.form = "short"
    /\ mem[UserBase(tag) + 1] = Len(message)
    /\ mem[UserBase(tag) + 39 * tag.bytes_per_page] = CardMem(card, tag)[UserBase(tag) + 39 * tag.bytes_per_page]

\* C9: whenever write commands are sent, the length of the framed blob is a
\* multiple of bytes_per_page and every command carries exactly
\* bytes_per_page content bytes.
C9_PaddingInvariant ==
    wlog # <<>>
    => /\ Len(tlv_message) % tag.bytes_per_page = 0
       /\ \A k \in 1..Len(wlog) :
            /\ Len(wlog[k].data) = tag.bytes_per_page
            /\ wlog[k].amount = Len(wlog[k].data)

C9_Witness ==
    /\ w_status = "written"
    /\ Len(message) % tag.bytes_per_page = 1
    /\ Len(wlog[Len(wlog)].data) = tag.bytes_per_page

\* C10: at the entry of _read_card_bytes, the clamped length satisfies
\* page + ceil(clamped / bytes_per_page) <= memory_page_max, is not larger
\* than the requested length and is not below zero.
C10_Clamp ==
    (pc = "read" /\ rcb.left = ReadAmount(rcb.requested))
    => /\ rcb.page + Ceil(rcb.length_in_bytes, tag.bytes_per_page) <= tag.memory_page_max
       /\ rcb.length_in_bytes <= rcb.requested
       /\ rcb.length_in_bytes >= 0

\* C11: when the very first read transaction of read_card (at
\* memory_page_start) suffers a transport fault, read_card ends with the
\* empty result and not with an error.
C11_EmptyCard ==
    (ReadEnded /\ Len(rres) >= 1 /\ rres[1] = "transport")
    => r_status = "empty"

\* C12: when a transport fault strikes a read transaction other than the
\* first, read_card ends with a hard error and returns neither a record nor
\* the empty result.
C12_TransportFaultLater ==
    (ReadEnded /\ \E k \in 2..Len(rres) : rres[k] = "transport")
    => r_status \notin {"record", "empty"}

\* C13: in read_card and write_card a command that returned a non-success
\* status or suffered a transport fault is the last command of the operation:
\* it is not sent again and no other command follows it.
C13_NoRetryFaultAborts ==
    /\ \A k \in 1..(Len(rres) - 1) : rres[k] = "ok"
    /\ \A j, k \in 1..Len(rlog) : j # k => rlog[j] # rlog[k]
    /\ \A j, k \in 1..Len(wlog) : j # k => wlog[j].page # wlog[k].page
    /\ (faults > 0 /\ r_status = "none" /\ wlog # <<>>) => pc = "done"

\* C14: when wait_for_card has returned or raised, every session it
\* connected has been disconnected and released.
C14_SessionRelease ==
    wfc \in {"returned", "raised"} => session \in {"none", "released"}

\* C15: when the decoded header declares a value that ends past the
\* addressable memory, read_card fails with an error and sends no command to
\* fetch that value.
C15_FramingFault ==
    (r_status # "none" /\ record_end > UserSize(tag))
    => /\ r_status # "record"
       /\ rcb.site = "final" => rcb.left = ReadAmount(rcb.requested)

\* C16: under every device behaviour, a record that read_card returns has as
\* many bytes as its header declares, and they are
\* buffer[start + header_length : start + header_length + value_length].
C16_ValueLength ==
    r_status = "record"
    => /\ Len(r_value) = record_end - record_start
       /\ r_value = Slice(content, record_start, record_end)

\* C17: on a fault-free device, when the scan finds a start marker at index
\* i, read_card sends exactly one extra standard-size read before decoding
\* the header if and only if the buffer holds fewer than i + 4 bytes; the
\* extra bytes continue the buffer, the page cursor advances by
\* pages_per_read, the scan index stays i, and the header bytes are in the
\* buffer when the header is decoded.
MarkerFoundStep == rcb.site = "scan" /\ rcb'.site \in {"more", "final"}

ExtraReadStep == rcb.site = "more" /\ rlog' # rlog

C17_NeedMoreData ==
    [][ faults' = 0 =>
          /\ r_status' # "IndexError"
          /\ MarkerFoundStep =>
               /\ content'[current_byte_index' + 1] = ndef_tlv_start
               /\ rcb'.site = "more" <=> Len(content') < current_byte_index' + 4
               /\ rcb'.site = "more" =>
                    /\ rcb'.requested = max_bytes_per_read
                    /\ rcb'.left = 1
                    /\ rcb'.page = page_index'
                    /\ (rcb'.page - tag.memory_page_start) * tag.bytes_per_page
                         = Len(content')
          /\ ExtraReadStep =>
               /\ rcb'.site = "final"
               /\ Len(rlog') = Len(rlog) + 1
               /\ current_byte_index' = current_byte_index
               /\ page_index' = page_index + PagesPerRead(tag)
               /\ Len(content') = Len(content) + max_bytes_per_read
               /\ \A i \in 1..Len(content') :
                    i <= UserSize(tag) => content'[i] = UserByte(i - 1)
          /\ (rcb'.site = "final" /\ rcb.site # "final") =>
               /\ Len(content') >= current_byte_index' + 4
               /\ record_start' = current_byte_index' +
                    (IF content'[current_byte_index' + 2] = 255 THEN 4 ELSE 2)
      ]_vars

\* the header straddles two chunks and the extra read has been done
C17_Witness ==
    /\ pc = "read"
    /\ faults = 0
    /\ rcb.site = "final"
    /\ rcb.left = ReadAmount(rcb.requested)
    /\ current_byte_index % max_bytes_per_read = 14
    /\ Len(content) = current_byte_index + 2 + max_bytes_per_read
    /\ Len(rlog) = 2
    /\ content[current_byte_index + 2] = 255
    /\ record_start = current_byte_index + 4

\* C18: every read command of read_card covers only pages p with
\* memory_page_start <= p < memory_page_max.
C18_ReadInsideMemory ==
    \A k \in 1..Len(rlog) :
        /\ rlog[k] >= tag.memory_page_start
        /\ rlog[k] + (max_bytes_per_read \div tag.bytes_per_page) <= tag.memory_page_max

\* C19: read_card ends after a number of read transactions bounded by the
\* addressable range of the device: at most one per chunk of
\* max_bytes_per_read bytes between memory_page_start and memory_page_max.
C19_ScanBounded ==
    Len(rlog) <= Ceil(tag.memory_page_max - tag.memory_page_start,
                      max_bytes_per_read \div tag.bytes_per_page)

\* C20: every header that write_card sends is the short form with a length
\* byte equal to the message length and below 0xFF; for a message of 0xFF
\* bytes or more write_card fails and sends no write command.
C20_WriteHeaderForm ==
    /\ wlog # <<>> =>
         /\ wlog[1].data[1] = ndef_tlv_start
         /\ wlog[1].data[2] = Len(message)
         /\ wlog[1].data[2] < 255
    /\ (w_status # "none" /\ Len(message) >= 255) =>
         /\ wlog = <<>>
         /\ pc = "done"
         /\ w_status \in {"HeaderValueError", "TooLarge"}

====
